---- MODULE Spec2Model ----
(***************************************************************************)
(* Model of server/prompt.go (chatPrompt, chatFormat) and of the tool      *)
(* schema formatter (parametersFormat, toolFormat, toolsFormat,            *)
(* chatFormat) of the ollama server package.                               *)
(*                                                                         *)
(* Indices i, n, cnt are the 0-based indices of the Go code; a Go slice    *)
(* element msgs[i] is the TLA+ sequence element msgs[i + 1].               *)
(***************************************************************************)
EXTENDS Integers, Sequences, FiniteSets, TLC

VARIABLES
    msgs,          \* the caller's message slice (chatPrompt writes through it)
    orig,          \* history: the message slice as it was when chatPrompt was called
    isMllama,      \* checkMllamaModelFamily(m)
    hasProjector,  \* m.ProjectorPaths != nil
    NumCtx,        \* opts.NumCtx
    tokens,        \* the tokenizer: candidate start index -> len(tokenize(render(candidate)))
    pc,            \* position inside chatPrompt: scan, tag, render, done, error
    i,             \* loop variable of the reverse scan
    n,             \* window start index
    system,        \* carried system messages
    cnt,           \* loop variable of the tagging loop
    images,        \* image payloads collected so far
    prompt,        \* returned prompt
    err,           \* returned error
    lastExec,      \* history: the Messages handed to the latest Template.Execute
    scanExecs,     \* history: number of Template.Execute calls made by the scan
    impl,          \* which declaration of chatFormat is called
    reqFormat,     \* chatFormat / toolsFormat inputs
    tools,
    format,        \* result of chatFormat
    schema,        \* result of toolsFormat
    fpc            \* position of the formatter run: call, done

promptVars == <<msgs, orig, isMllama, hasProjector, NumCtx, tokens, pc, i, n,
                system, cnt, images, prompt, err, lastExec, scanExecs>>
formatVars == <<impl, reqFormat, tools, format, schema, fpc>>
vars == <<promptVars, formatVars>>

----------------------------------------------------------------------------
(* Bounds of the model *)

MaxMsgs == 3
MaxImages == 2

\* context budgets and tokenizer results the inputs are drawn from
Budgets == {1, 3, 769, 1537}
TokCounts == {1, 3}

----------------------------------------------------------------------------
(* chatPrompt *)

\* contents are sequences of text chunks; "[img]" is the generic placeholder
Contents == { <<"w">>, <<"w", "[img]">> }

MsgShapes ==
    { [Role |-> "system", Content |-> <<"w">>, NumImages |-> 0] }
    \cup { [Role |-> "user", Content |-> <<"w">>, NumImages |-> 0] }
    \cup { [Role |-> "user", Content |-> c, NumImages |-> k] :
              c \in Contents, k \in 1..MaxImages }

\* the k-th message of a request: its images are distinct raw blobs
MkMsg(shape, k) ==
    [Role |-> shape.Role, Content |-> shape.Content,
     Images |-> [j \in 1..shape.NumImages |-> <<k, j>>]]

MsgLists ==
    UNION { { [k \in 1..L |-> MkMsg(f[k], k)] : f \in [1..L -> MsgShapes] } :
            L \in 1..MaxMsgs }

errTooManyImages == "vision model only supports a single image per message"

imageNumTokens == IF isMllama THEN 1 ELSE 768

\* (mutation) the slice taken one element late
SliceFromNext(s, from) == SubSeq(s, from + 2, Len(s))

\* msgs[from:] of a Go slice, from 0-based
SliceFrom(s, from) == SubSeq(s, from + 1, Len(s))

RECURSIVE SystemBefore(_, _)
\* the loop of lines 53-58: system messages at indices 0 .. upto-1, in order
SystemBefore(s, upto) ==
    IF upto <= 0 THEN <<>>
    ELSE LET rest == SystemBefore(s, upto - 1)
         IN IF s[upto].Role = "system" THEN Append(rest, s[upto]) ELSE rest

RECURSIVE NumImagesIn(_)
\* sum of len(m.Images) over a message sequence
NumImagesIn(s) ==
    IF s = <<>> THEN 0 ELSE Len(Head(s).Images) + NumImagesIn(Tail(s))

\* lines 70-75
CtxLen(s, at) ==
    tokens[at] + (IF hasProjector THEN imageNumTokens * NumImagesIn(SliceFrom(s, at)) ELSE 0)

\* (mutation) a candidate that meets the budget exactly is rejected
ExceedsOrMeets(ctxLen, budget) == ctxLen >= budget

\* (mutation) the comparison inverted
ExceedsInverted(ctxLen, budget) == ctxLen < budget

\* line 77
Exceeds(ctxLen, budget) == ctxLen > budget

\* (mutation) the limit of images per message taken one too high
TooManyImagesOverTwo(m) == isMllama /\ Len(m.Images) > 2

\* line 44
TooManyImages(m) == isMllama /\ Len(m.Images) > 1

\* the rendered text: role marker and content chunks of every message, in order
RECURSIVE Execute(_)
Execute(ms) ==
    IF ms = <<>> THEN <<>>
    ELSE <<"<" \o Head(ms).Role \o ">">> \o Head(ms).Content \o Execute(Tail(ms))

PromptInit ==
    /\ msgs \in MsgLists
    /\ orig = msgs
    /\ isMllama \in BOOLEAN
    /\ hasProjector \in BOOLEAN
    /\ NumCtx \in Budgets
    /\ tokens \in [0..(Len(msgs) - 2) -> TokCounts]
    /\ pc = "scan"
    /\ n = Len(msgs) - 1
    /\ i = Len(msgs) - 1
    /\ system = <<>>
    /\ cnt = 0
    /\ images = <<>>
    /\ prompt = <<>>
    /\ err = "nil"
    /\ lastExec = <<>>
    /\ scanExecs = 0

Fail(e) ==
    /\ pc' = "error"
    /\ err' = e
    /\ prompt' = <<>>
    /\ images' = <<>>

\* (mutation) the tagging loop is skipped after the scan
ScanNextSkipsTagging(brk) == IF brk \/ i - 1 < 0 THEN "render" ELSE "scan"

\* where the scan goes after the iteration at index i
ScanNext(brk) == IF brk \/ i - 1 < 0 THEN "tag" ELSE "scan"

\* One iteration of the reverse scan (lines 43-83)
ScanStep ==
    /\ pc = "scan"
    /\ IF TooManyImages(msgs[i + 1])
       THEN /\ Fail(errTooManyImages)
            /\ UNCHANGED <<msgs, i, n, system, cnt, lastExec, scanExecs>>
       ELSE IF i = n
       THEN /\ i' = i - 1
            /\ pc' = ScanNext(FALSE)
            /\ UNCHANGED <<msgs, n, system, cnt, images, prompt, err, lastExec, scanExecs>>
       ELSE /\ system' = SystemBefore(msgs, i)
            /\ lastExec' = system' \o SliceFrom(msgs, i)
            /\ scanExecs' = scanExecs + 1
            /\ \E outcome \in {"ok", "render", "tokenize", "cancelled"} :
                 IF outcome # "ok"
                 THEN /\ Fail(outcome)
                      /\ UNCHANGED <<msgs, i, n, cnt>>
                 ELSE /\ IF Exceeds(CtxLen(msgs, i), NumCtx)
                         THEN /\ pc' = ScanNext(TRUE)
                              /\ UNCHANGED <<i, n>>
                         ELSE /\ n' = i
                              /\ i' = i - 1
                              /\ pc' = ScanNext(FALSE)
                      /\ UNCHANGED <<msgs, cnt, images, prompt, err>>
    /\ UNCHANGED <<orig, isMllama, hasProjector, NumCtx, tokens>>
    /\ UNCHANGED formatVars

\* fmt.Sprintf("[img-%d]", id)
ImgTag(id) == "[img-" \o ToString(id) \o "]"

Contains(content, chunk) == \E k \in 1..Len(content) : content[k] = chunk

\* strings.Replace(content, old, new, 1)
ReplaceFirst(content, old, new) ==
    LET first == CHOOSE k \in 1..Len(content) :
                    /\ content[k] = old
                    /\ \A j \in 1..(k - 1) : content[j] # old
    IN [k \in 1..Len(content) |-> IF k = first THEN new ELSE content[k]]

\* (mutation) ids counted from one
ImageDataFromOne(id, blob) ==
    IF isMllama
    THEN [ID |-> id + 1, Data |-> [enc |-> TRUE, blob |-> blob], AspectRatioID |-> 1]
    ELSE [ID |-> id + 1, Data |-> [enc |-> FALSE, blob |-> blob], AspectRatioID |-> 0]

\* llm.ImageData built at lines 112-116 (mllama) and 119-122
ImageData(id, blob) ==
    IF isMllama
    THEN [ID |-> id, Data |-> [enc |-> TRUE, blob |-> blob], AspectRatioID |-> 1]
    ELSE [ID |-> id, Data |-> [enc |-> FALSE, blob |-> blob], AspectRatioID |-> 0]

RECURSIVE TagImages(_, _, _)
\* the inner loop of lines 92-133 over the images of one message, from image k on;
\* st = [prefix, prompt, images]
TagImages(imgs, k, st) ==
    IF k > Len(imgs) THEN st
    ELSE LET imgData == ImageData(Len(st.images), imgs[k])
             imgTag == ImgTag(imgData.ID)
             st2 == IF ~Contains(st.prompt, "[img]")
                    THEN [st EXCEPT !.prefix = Append(@, imgTag)]
                    ELSE [st EXCEPT !.prompt = ReplaceFirst(@, "[img]", imgTag)]
         IN TagImages(imgs, k + 1, [st2 EXCEPT !.images = Append(@, imgData)])

\* (mutation) the window offset currMsgIdx forgotten
TagIdxNoOffset == cnt + 1

\* the element msgs[currMsgIdx + cnt] written at line 134
TagIdx == n + cnt + 1

\* where the tagging loop goes after the message at offset cnt
TagNext == IF TagIdx >= Len(msgs) THEN "render" ELSE "tag"

\* One iteration of the tagging loop (lines 87-135), on msgs[currMsgIdx + cnt]
TagStep ==
    /\ pc = "tag"
    /\ LET msg == msgs[TagIdx]
           st == TagImages(msg.Images, 1,
                           [prefix |-> <<>>, prompt |-> msg.Content, images |-> images])
           imgPrompt == IF isMllama /\ Len(msg.Images) > 0 THEN <<"<|image|>">> ELSE <<>>
       IN \E outcome \in {"ok", "preprocess", "write", "missing aspect ratio for image"} :
            IF outcome # "ok"
            THEN /\ isMllama
                 /\ Len(msg.Images) > 0
                 /\ Fail(outcome)
                 /\ UNCHANGED <<msgs, cnt>>
            ELSE /\ images' = st.images
                 /\ msgs' = [msgs EXCEPT ![TagIdx].Content =
                                            st.prefix \o imgPrompt \o st.prompt]
                 /\ cnt' = cnt + 1
                 /\ pc' = TagNext
                 /\ UNCHANGED <<prompt, err>>
    /\ UNCHANGED <<orig, isMllama, hasProjector, NumCtx, tokens, i, n, system,
                   lastExec, scanExecs>>
    /\ UNCHANGED formatVars

\* The final render (lines 138-143)
FinalRender ==
    /\ pc = "render"
    /\ lastExec' = system \o SliceFrom(msgs, n)
    /\ \E outcome \in {"ok", "render"} :
         IF outcome # "ok"
         THEN Fail(outcome)
         ELSE /\ prompt' = Execute(lastExec')
              /\ pc' = "done"
              /\ UNCHANGED <<images, err>>
    /\ UNCHANGED <<msgs, orig, isMllama, hasProjector, NumCtx, tokens, i, n, system,
                   cnt, scanExecs>>
    /\ UNCHANGED formatVars

----------------------------------------------------------------------------
(* parametersFormat, toolFormat, toolsFormat, chatFormat *)

MaxTools == 2

\* api.Tool values: Function.Name and Function.Parameters
WeatherTool ==
    [Name |-> "get_current_weather",
     Parameters |->
        [Type |-> "object",
         Properties |-> [location |-> [Type |-> "string", Enum |-> <<>>],
                         format |-> [Type |-> "string", Enum |-> <<"celsius", "fahrenheit">>]],
         Required |-> <<"location", "format">>]]

GitTool ==
    [Name |-> "git",
     Parameters |->
        [Type |-> "object",
         Properties |-> [command |-> [Type |-> "string", Enum |-> <<>>]],
         Required |-> <<>>]]

NoopTool ==
    [Name |-> "noop",
     Parameters |-> [Type |-> "object", Properties |-> <<>>, Required |-> <<>>]]

Tools == {WeatherTool, GitTool, NoopTool}

ToolLists == UNION { [1..L -> Tools] : L \in 0..MaxTools }

\* request formats: absent, a JSON string, a JSON object
ReqFormats == { <<>>, <<"\"json\"">>, <<"{", "}">> }

parametersFormat(parameters) ==
    LET field(param) ==
            IF Len(param.Enum) > 0
            THEN [type |-> param.Type, enum |-> param.Enum]
            ELSE [type |-> param.Type]
        properties == [name \in DOMAIN parameters.Properties |->
                          field(parameters.Properties[name])]
    IN IF Len(parameters.Required) > 0
       THEN [type |-> "object", properties |-> properties,
             required |-> parameters.Required]
       ELSE [type |-> "object", properties |-> properties]

toolFormat(tool) ==
    [type |-> "object",
     properties |-> [name |-> [type |-> "string", enum |-> <<tool.Name>>],
                     parameters |-> parametersFormat(tool.Parameters)],
     required |-> <<"name", "parameters">>]

\* (mutation) a single tool wrapped in anyOf like any other number of tools
toolsFormatAlwaysAnyOf(ts) ==
    [anyOf |-> [j \in 1..Len(ts) |-> toolFormat(ts[j])]]

toolsFormat(ts) ==
    IF Len(ts) = 1
    THEN toolFormat(ts[1])
    ELSE [anyOf |-> [j \in 1..Len(ts) |-> toolFormat(ts[j])]]

(* json.Marshal, as the sequence of JSON tokens it writes; the keys of a map
   are written in sorted order, the fields of a struct in declaration order *)

JString(str) == "\"" \o str \o "\""

RECURSIVE JoinComma(_)
JoinComma(parts) ==
    IF parts = <<>> THEN <<>>
    ELSE IF Len(parts) = 1 THEN Head(parts)
    ELSE Head(parts) \o <<",">> \o JoinComma(Tail(parts))

JArray(parts) == <<"[">> \o JoinComma(parts) \o <<"]">>
JObject(parts) == <<"{">> \o JoinComma(parts) \o <<"}">>
JMember(key, value) == <<JString(key), ":">> \o value
JStrings(strs) == JArray([k \in 1..Len(strs) |-> <<JString(strs[k])>>])

\* the property names of the tools, sorted
SortedNames == <<"command", "format", "location">>

\* the members of a map from string keys to serialized values, keys sorted
MapMembers(m) ==
    LET present == SelectSeq(SortedNames, LAMBDA k : k \in DOMAIN m)
    IN [k \in 1..Len(present) |-> JMember(present[k], m[present[k]])]

MarshalField(f) ==
    JObject((IF "enum" \in DOMAIN f THEN <<JMember("enum", JStrings(f.enum))>> ELSE <<>>)
            \o <<JMember("type", <<JString(f.type)>>)>>)

MarshalParametersFormat(p) ==
    JObject(<<JMember("properties",
                      JObject(MapMembers([k \in DOMAIN p.properties |->
                                            MarshalField(p.properties[k])])))>>
            \o (IF "required" \in DOMAIN p
                THEN <<JMember("required", JStrings(p.required))>> ELSE <<>>)
            \o <<JMember("type", <<JString(p.type)>>)>>)

\* a single-tool schema whose "parameters" member is already serialized
MarshalToolObject(nameEnum, parameters) ==
    JObject(<<JMember("properties",
                      JObject(<<JMember("name",
                                        JObject(<<JMember("enum", JStrings(nameEnum)),
                                                  JMember("type", <<JString("string")>>)>>)),
                                JMember("parameters", parameters)>>)),
              JMember("required", JStrings(<<"name", "parameters">>)),
              JMember("type", <<JString("object")>>)>>)

MarshalToolFormat(f) ==
    MarshalToolObject(f.properties.name.enum,
                      MarshalParametersFormat(f.properties.parameters))

MarshalToolsFormat(f) ==
    IF "anyOf" \in DOMAIN f
    THEN JObject(<<JMember("anyOf",
                           JArray([j \in 1..Len(f.anyOf) |-> MarshalToolFormat(f.anyOf[j])]))>>)
    ELSE MarshalToolFormat(f)

\* api.ToolFunction.Parameters written by json.Marshal as the struct it is;
\* a tool without required names has a nil slice, written as null
MarshalToolParameters(p) ==
    LET prop(q) ==
            JObject(<<JMember("type", <<JString(q.Type)>>)>>
                    \o (IF Len(q.Enum) > 0
                        THEN <<JMember("enum", JStrings(q.Enum))>> ELSE <<>>))
    IN JObject(<<JMember("type", <<JString(p.Type)>>),
                 JMember("required", IF Len(p.Required) = 0 THEN <<"null">>
                                     ELSE JStrings(p.Required)),
                 JMember("properties",
                         JObject(MapMembers([k \in DOMAIN p.Properties |->
                                               prop(p.Properties[k])])))>>)

\* chatFormat as declared next to toolsFormat
chatFormat(rf, ts) ==
    IF Len(rf) > 0 \/ Len(ts) = 0
    THEN rf
    ELSE MarshalToolsFormat(toolsFormat(ts))

\* chatFormat as declared in server/prompt.go
chatFormatPromptGo(rf, ts) ==
    IF Len(rf) > 0
    THEN rf
    ELSE JObject(<<JMember("anyOf",
                   JArray([j \in 1..Len(ts) |->
                             MarshalToolObject(<<ts[j].Name>>,
                                               MarshalToolParameters(ts[j].Parameters))]))>>)

FormatInit ==
    /\ impl = "none"
    /\ reqFormat \in ReqFormats
    /\ tools \in ToolLists
    /\ format = <<>>
    /\ schema = <<>>
    /\ fpc = "call"

\* a call of chatFormat of the formatter file
ChatFormatCall ==
    /\ fpc = "call"
    /\ impl' = "format"
    /\ format' = chatFormat(reqFormat, tools)
    /\ fpc' = "formatted"
    /\ UNCHANGED <<reqFormat, tools, schema>>
    /\ UNCHANGED promptVars

\* a call of chatFormat of server/prompt.go
ChatFormatPromptGoCall ==
    /\ fpc = "call"
    /\ impl' = "prompt"
    /\ format' = chatFormatPromptGo(reqFormat, tools)
    /\ fpc' = "formatted"
    /\ UNCHANGED <<reqFormat, tools, schema>>
    /\ UNCHANGED promptVars

\* a call of toolsFormat (as TestToolsFormat makes it)
ToolsFormatCall ==
    /\ fpc = "call"
    /\ impl' = "format"
    /\ schema' = toolsFormat(tools)
    /\ fpc' = "schema"
    /\ UNCHANGED <<reqFormat, tools, format>>
    /\ UNCHANGED promptVars

\* no chatPrompt request is running
PromptIdle ==
    /\ msgs = <<>>
    /\ orig = <<>>
    /\ isMllama = FALSE
    /\ hasProjector = FALSE
    /\ NumCtx = 1
    /\ tokens = <<>>
    /\ pc = "idle"
    /\ i = 0
    /\ n = 0
    /\ system = <<>>
    /\ cnt = 0
    /\ images = <<>>
    /\ prompt = <<>>
    /\ err = "nil"
    /\ lastExec = <<>>
    /\ scanExecs = 0

\* no formatter call is running
FormatIdle ==
    /\ impl = "none"
    /\ reqFormat = <<>>
    /\ tools = <<>>
    /\ format = <<>>
    /\ schema = <<>>
    /\ fpc = "idle"

Init == PromptInit /\ FormatIdle

Next == ScanStep \/ TagStep \/ FinalRender

Spec == Init /\ [][Next]_vars

InitFormat == PromptIdle /\ FormatInit

NextFormat == ChatFormatCall \/ ChatFormatPromptGoCall \/ ToolsFormatCall

SpecFormat == InitFormat /\ [][NextFormat]_vars

----------------------------------------------------------------------------
(* Properties of chatPrompt *)

N == Len(orig)

ScanOver == pc \in {"tag", "render", "done"}

\* the reverse scan as a function of the budget, every render and tokenize call
\* succeeding: the window start, or -1 for errTooManyImages
RECURSIVE WindowStart(_, _, _, _)
WindowStart(s, budget, at, cur) ==
    IF at < 0 THEN cur
    ELSE IF TooManyImages(s[at + 1]) THEN -1
    ELSE IF at = cur THEN WindowStart(s, budget, at - 1, cur)
    ELSE IF Exceeds(CtxLen(s, at), budget) THEN cur
    ELSE WindowStart(s, budget, at - 1, at)

IsTag(chunk) == \E id \in 0..(MaxMsgs * MaxImages) : chunk = ImgTag(id)

TagsOf(content) == { content[k] : k \in { j \in 1..Len(content) : IsTag(content[j]) } }

NumSystem(ms) == Cardinality({ k \in 1..Len(ms) : ms[k].Role = "system" })

\* the step functions agree with the scan written as a function
ScanAgrees == ScanOver => n = WindowStart(orig, NumCtx, N - 1, N - 1)

\* C1: whenever chatPrompt returns without error the window it finally renders
\* is msgs[n:] with 0 <= n <= N-1; it is never empty and its last element is
\* the last message of the request, whatever the budget.
C1_WindowKeepsLast ==
    /\ ScanOver => (0 <= n /\ n <= N - 1)
    /\ pc = "done" =>
         /\ Len(lastExec) = Len(system) + (N - n)
         /\ Len(lastExec) >= 1
         /\ \A k \in 1..(N - n) : lastExec[Len(system) + k] = msgs[n + k]
         /\ lastExec[Len(lastExec)].Images = orig[N].Images
         /\ lastExec[Len(lastExec)].Role = orig[N].Role

\* C1 witness: a prompt was returned although the last message alone costs
\* more than the budget.
C1_Witness ==
    /\ pc = "done"
    /\ N >= 2
    /\ n = N - 1
    /\ hasProjector
    /\ imageNumTokens * Len(orig[N].Images) > NumCtx

\* C2 (as claimed): whenever chatPrompt returns without error every system
\* message of the request appears exactly once in the messages handed to the
\* final render.
C2_SystemExactlyOnce ==
    pc = "done" => NumSystem(lastExec) = NumSystem(orig)

\* C3 (as claimed): the window start is the largest fitting suffix, the cost
\* of a candidate being its token count plus imageCost x its images.
ClaimedCost(j) == tokens[j] + imageNumTokens * NumImagesIn(SliceFrom(orig, j))

C3_LargestFittingSuffix ==
    ScanOver =>
        /\ \A j \in n..(N - 2) : ClaimedCost(j) <= NumCtx
        /\ (n = 0 \/ ClaimedCost(n - 1) > NumCtx)

\* C3 (amended): the same, the image term counting only when the model has
\* projector paths; a candidate whose cost equals the budget is accepted.
CountedCost(j) ==
    tokens[j] + (IF hasProjector THEN imageNumTokens * NumImagesIn(SliceFrom(orig, j)) ELSE 0)

C3_LargestFittingSuffixCounted ==
    ScanOver =>
        /\ 0 <= n /\ n <= N - 1
        /\ \A j \in n..(N - 2) : CountedCost(j) <= NumCtx
        /\ (n = 0 \/ CountedCost(n - 1) > NumCtx)

\* C3 witness: a window of two or more messages whose first candidate costs
\* exactly the budget, images included, and the next candidate exceeds it.
C3_Witness ==
    /\ pc = "done"
    /\ hasProjector
    /\ n >= 1
    /\ n <= N - 2
    /\ NumImagesIn(SliceFrom(orig, n)) > 0
    /\ CountedCost(n) = NumCtx

\* C4 (as claimed): for an mllama model, a request with a message of more than
\* one image returns errTooManyImages with no prompt and no payloads.
C4_TooManyImagesAnywhere ==
    (isMllama /\ \E k \in 1..N : Len(orig[k].Images) > 1) =>
        /\ pc # "done"
        /\ pc = "error" => (err = errTooManyImages /\ prompt = <<>> /\ images = <<>>)

\* C4 (amended): for an mllama model the error is returned when the reverse
\* scan reaches a message of more than one image (always when it is the last
\* message), with no prompt and no payloads; a returned prompt has only
\* messages of at most one image in its window.
C4_TooManyImagesWhenReached ==
    isMllama =>
        /\ pc = "scan" => \A k \in (i + 2)..N : Len(orig[k].Images) <= 1
        /\ ScanOver => \A k \in (n + 1)..N : Len(orig[k].Images) <= 1
        /\ Len(orig[N].Images) > 1 =>
              \/ pc = "scan" /\ i = N - 1
              \/ pc = "error" /\ err = errTooManyImages
        /\ (pc = "error" /\ err = errTooManyImages) =>
              /\ prompt = <<>>
              /\ images = <<>>
              /\ Len(orig[i + 1].Images) > 1

\* C4 witness: the error was returned for a message that is not the last one.
C4_Witness ==
    /\ isMllama
    /\ pc = "error"
    /\ err = errTooManyImages
    /\ i < N - 1

\* C5: after a successful run the payloads carry ids 0..k-1, each id equal to
\* its index, in order of appearance (message order, then image order), and
\* the tags written into a message are those of its own payloads.
C5_IdsSequential ==
    pc = "done" =>
        /\ Len(images) = NumImagesIn(SliceFrom(orig, n))
        /\ \A k \in 1..Len(images) : images[k].ID = k - 1
        /\ \A m \in (n + 1)..N :
             LET before == NumImagesIn(SubSeq(orig, n + 1, m - 1))
                 own == Len(orig[m].Images)
             IN /\ \A j \in 1..own : images[before + j].Data.blob = orig[m].Images[j]
                /\ TagsOf(msgs[m].Content) = { ImgTag(images[before + j].ID) : j \in 1..own }

\* C5 witness: three or more payloads from two or more messages of the window.
C5_Witness ==
    /\ pc = "done"
    /\ Len(images) >= 3
    /\ \E m \in (n + 1)..N : Len(orig[m].Images) > 0 /\ Len(orig[m].Images) < Len(images)

\* C6 (as claimed): when chatPrompt returns an error the caller's message
\* list is as it was before the call.
C6_ErrorLeavesMessages ==
    pc = "error" => msgs = orig

\* C6 (amended): an error of the truncation scan leaves the list as it was;
\* after an error of tagging or of the final render the cnt window messages
\* already tagged keep their rewritten content, every other message, every
\* role and every image being as before.
C6_ErrorLeavesUntagged ==
    pc = "error" =>
        /\ Len(msgs) = N
        /\ \A k \in 1..N :
             /\ msgs[k].Role = orig[k].Role
             /\ msgs[k].Images = orig[k].Images
             /\ (k <= n \/ k > n + cnt) => msgs[k] = orig[k]
             /\ (k > n /\ k <= n + cnt /\ Len(orig[k].Images) > 0) =>
                    msgs[k].Content # orig[k].Content
        /\ err \in {errTooManyImages, "tokenize", "cancelled"} => msgs = orig
        /\ cnt = 0 => msgs = orig

\* C6 witness: an error was returned and the caller's list is rewritten.
C6_Witness ==
    /\ pc = "error"
    /\ msgs # orig
    /\ n >= 1

\* C7: for a fixed message list and tokenizer, a larger budget never gives a
\* smaller window: the start index for b2 >= b1 is at most the one for b1.
C7_BudgetMonotone ==
    ScanOver =>
        \A b \in Budgets :
            LET other == WindowStart(orig, b, N - 1, N - 1)
            IN other >= 0 =>
                 /\ b >= NumCtx => other <= n
                 /\ b <= NumCtx => other >= n

\* C7 witness: a smaller budget gives a strictly smaller window.
C7_Witness ==
    /\ pc = "done"
    /\ \E b \in Budgets :
         /\ b < NumCtx
         /\ WindowStart(orig, b, N - 1, N - 1) > n

\* C10 (as claimed): tagging comes first, so every candidate window the scan
\* renders already has the tagged contents.
Tagged(m) == Len(m.Images) > 0 => TagsOf(m.Content) # {}

C10_ScanRendersTagged ==
    (scanExecs > 0 /\ pc \in {"scan", "tag"} /\ cnt = 0) =>
        \A k \in 1..Len(lastExec) : Tagged(lastExec[k])

\* C10 (amended): the truncation scan comes first and renders the contents as
\* the caller passed them, tagging of the window messages comes after the scan,
\* and the final render of the tagged window comes last.
C10_ScanThenTagThenRender ==
    /\ pc = "scan" => (msgs = orig /\ cnt = 0 /\ images = <<>>)
    /\ (scanExecs > 0 /\ (pc = "scan" \/ cnt = 0) /\ pc # "done") =>
          \A k \in 1..Len(lastExec) : \E j \in 1..N : lastExec[k] = orig[j]
    /\ pc = "tag" => (cnt < N - n /\ Len(images) = NumImagesIn(SubSeq(orig, n + 1, n + cnt)))
    /\ pc = "render" => cnt = N - n
    /\ pc = "done" =>
          /\ cnt = N - n
          /\ \A k \in (n + 1)..N : Tagged(msgs[k]) /\ lastExec[Len(system) + k - n] = msgs[k]
          /\ prompt = Execute(lastExec)
          /\ prompt # <<>>

\* C10 witness: the scan rendered a candidate with an image, and the prompt
\* returned afterwards has that image's tag.
C10_Witness ==
    /\ pc = "done"
    /\ scanExecs > 0
    /\ n <= N - 2
    /\ Len(orig[n + 1].Images) > 0
    /\ Contains(prompt, ImgTag(0))

----------------------------------------------------------------------------
(* Properties of chatFormat and toolsFormat *)

\* C8 (as claimed): chatFormat returns the request format unchanged when it
\* is non-empty and when no tools are supplied; only for an empty request
\* format and at least one tool does it return a serialized schema.
C8_FormatPassThrough ==
    fpc = "formatted" =>
        IF Len(reqFormat) > 0 \/ Len(tools) = 0
        THEN format = reqFormat
        ELSE /\ format # reqFormat
             /\ Head(format) = "{"


\* C9: for exactly one tool the derived schema is that tool's object schema,
\* not wrapped in anyOf: properties name (a string whose enum is the tool's
\* function name) and parameters (the converted parameter schema), required
\* name and parameters; for two or more tools it is anyOf of the single-tool
\* schemas, one per tool, in input order.
IsSingleToolSchema(sch, tool) ==
    /\ DOMAIN sch = {"type", "properties", "required"}
    /\ sch.type = "object"
    /\ DOMAIN sch.properties = {"name", "parameters"}
    /\ sch.properties.name = [type |-> "string", enum |-> <<tool.Name>>]
    /\ sch.properties.parameters = parametersFormat(tool.Parameters)
    /\ sch.required = <<"name", "parameters">>

C9_ToolsSchemaShape ==
    fpc = "schema" =>
        /\ Len(tools) = 1 => IsSingleToolSchema(schema, tools[1])
        /\ Len(tools) >= 2 =>
             /\ DOMAIN schema = {"anyOf"}
             /\ Len(schema.anyOf) = Len(tools)
             /\ \A j \in 1..Len(tools) : IsSingleToolSchema(schema.anyOf[j], tools[j])

\* C9 witness: the schema of two different tools was derived.
C9_Witness ==
    /\ fpc = "schema"
    /\ Len(tools) >= 2
    /\ tools[1] # tools[2]
    /\ "anyOf" \in DOMAIN schema

====
